---- MODULE Spec2Model ----
(***************************************************************************)
(* blob.py: random clustered units -> sampling grid -> summed Gaussian     *)
(* field, normalized by its maximum -> one isocontour plus a scatter plot. *)
(*                                                                         *)
(* Number model.  Coordinates are integers (one unit = 1.0).  Field values *)
(* are fixed-point with ONE standing for 1.0; sigma is held in tenths      *)
(* (150 = 15.0, 5 = 0.5); threshold is held in units of 1/ONE.  Division   *)
(* rounds (floor), as floating-point division rounds.  NaN is the          *)
(* not-a-number value that 0/0 produces.                                   *)
(***************************************************************************)
EXTENDS Integers, Sequences, FiniteSets, TLC

VARIABLES
    num_clusters, units_per_cluster, sigma, threshold, grid_res,  \* parameters
    rng,              \* state of the process-global random generator
    cluster_centers,  \* line 14
    clusters,         \* the Python list `units` of per-cluster arrays (lines 15-19)
    ci,               \* position of `for center in cluster_centers`
    units,            \* the stacked array `units` (line 21)
    x, y,             \* the axis samples (lines 28-29)
    field,            \* grid_res x grid_res field, field[<<i, j>>] at (x[j], y[i])
    ui,               \* position of `for ux, uy in units`
    peak,             \* the value field.max() returned at line 41
    contour,          \* grid edges crossed by the drawn isocontour (line 45)
    pc, exitCode,     \* position in the script, process exit status
    started,          \* history: the stages entered, in order
    accLog,           \* history: indices of the units accumulated, in order
    run, seed, prev   \* re-run bookkeeping: run number, seed, first run's outcome

params == <<num_clusters, units_per_cluster, sigma, threshold, grid_res>>
vars == <<num_clusters, units_per_cluster, sigma, threshold, grid_res, rng,
          cluster_centers, clusters, ci, units, x, y, field, ui, peak,
          contour, pc, exitCode, started, accLog, run, seed, prev>>

(* ------------------------------ bounds -------------------------------- *)
MaxClusters == 2
MaxUnitsPer == 2
MaxGridRes == 3
MaxSeed == 3

(* ----------------------------- constants ------------------------------ *)
margin == 20
UniformLow == -50
UniformHigh == 50
NormalScale == 5
ONE == 1000
NaN == -1
RngMod == 16
ExpUnderflow == 746

SigmaVals == {5, 150}
ThresholdVals == {200, 1000, 1200}
StageOrder == <<"generate", "grid", "field", "render">>

(* ------------------------- the random source -------------------------- *)
NextRng(s) == (5 * s + 3) % RngMod

RECURSIVE RngAfter(_, _)
RngAfter(s, n) == IF n = 0 THEN s ELSE RngAfter(NextRng(s), n - 1)

\* low + (high - low) * u, u in [0, 1)
Uniform(s) == UniformLow + ((UniformHigh - UniformLow) * s) \div RngMod

\* scale * z, z a standard normal deviate
Normal(s) == NormalScale * ((s % 5) - 2)

ReseedSkipped(s) == rng

Reseed(s) == s

(* --------------------------- array helpers ---------------------------- *)
RECURSIVE Flatten(_)
Flatten(cl) == IF cl = <<>> THEN <<>> ELSE Head(cl) \o Flatten(Tail(cl))

VstackLast(cl) == cl[Len(cl)]

Vstack(cl) == Flatten(cl)

VstackNeverFaults(cl) == FALSE

\* np.vstack raises ValueError on an empty list of arrays
VstackFaults(cl) == Len(cl) = 0

EmptyReductionIgnored(u) == FALSE

\* min/max over a zero-length axis raises ValueError
EmptyReduction(u) == Len(u) = 0

SetMin(S) == IF S = {} THEN 0 ELSE CHOOSE m \in S : \A o \in S : m <= o
SetMax(S) == IF S = {} THEN 0 ELSE CHOOSE m \in S : \A o \in S : m >= o

AxisMin(u, a) == SetMin({u[k][a] : k \in 1..Len(u)})
AxisMax(u, a) == SetMax({u[k][a] : k \in 1..Len(u)})

LinspaceNoEndpoint(start, stop, num) ==
    [i \in 1..num |-> start + (i - 1) * ((stop - start) \div num)]

\* np.linspace(start, stop, num), endpoint=True: div = num - 1 when num > 1,
\* step = delta / div, y = arange(num) * step + start, y[-1] = stop when num > 1.
\* (linspace's step == 0 branch needs stop = start; here stop - start >= 2 * margin.)
Linspace(start, stop, num) ==
    LET div == IF num > 1 THEN num - 1 ELSE 1
        step == (stop - start) \div div
    IN  [i \in 1..num |->
            IF num > 1 /\ i = num THEN stop ELSE start + (i - 1) * step]

LoopDoneEarly(i, n) == i >= n

\* a for loop over n items whose (1-based) position is i is exhausted
LoopDone(i, n) == i > n

(* ------------------------------ the field ----------------------------- *)
GridOf(n) == (1..n) \X (1..n)

ExpTable == <<1000, 368, 135, 50, 18, 7, 2>>

\* exp(-t) for an integer t >= 0: ONE at 0, decreasing, positive up to the
\* double-precision underflow bound and exactly 0 beyond it
ExpNeg(t) ==
    IF t >= ExpUnderflow THEN 0
    ELSE IF t < Len(ExpTable) THEN ExpTable[t + 1]
    ELSE 1

\* exp(-(dx**2 + dy**2) / (2 * sigma**2)), s = sigma in tenths
Kernel(dx, dy, s) == ExpNeg(((dx * dx + dy * dy) * 100) \div (2 * s * s))

\* ndarray.max(): NaN if any element is NaN
FieldMax(f) ==
    IF \E p \in DOMAIN f : f[p] = NaN THEN NaN
    ELSE SetMax({f[p] : p \in DOMAIN f})

\* float division: NaN operands and 0/0 give NaN
Divide(v, m) ==
    IF v = NaN \/ m = NaN THEN NaN
    ELSE IF m = 0 THEN NaN
    ELSE (v * ONE) \div m

NormalizedNone(f, m) == f

NormalizedByCount(f, m) == [p \in DOMAIN f |-> Divide(f[p], ONE * Len(units))]

\* field /= m
Normalized(f, m) == [p \in DOMAIN f |-> Divide(f[p], m)]

(* ----------------------------- the contour ---------------------------- *)
AboveOrEqual(v, level) == v # NaN /\ v >= level

\* a grid point lies inside the level set
Above(v, level) == v # NaN /\ v > level

NotAbove(v, level) == v # NaN /\ ~Above(v, level)

Adjacent(p, q) ==
    \/ p[1] = q[1] /\ (p[2] = q[2] + 1 \/ q[2] = p[2] + 1)
    \/ p[2] = q[2] /\ (p[1] = q[1] + 1 \/ q[1] = p[1] + 1)

\* the grid edges the level-`level` line passes through
Crossings(f, level) ==
    {e \in (DOMAIN f) \X (DOMAIN f) :
        Adjacent(e[1], e[2]) /\ Above(f[e[1]], level) /\ NotAbove(f[e[2]], level)}

(* ------------------------------- Init --------------------------------- *)
NoPrev == [pc |-> "none", units |-> <<>>, field |-> <<>>]

Fresh ==
    /\ cluster_centers = <<>>
    /\ clusters = <<>>
    /\ ci = 1
    /\ units = <<>>
    /\ x = <<>>
    /\ y = <<>>
    /\ field = <<>>
    /\ ui = 1
    /\ peak = NaN
    /\ contour = {}
    /\ pc = "centers"
    /\ exitCode = 0
    /\ started = <<>>
    /\ accLog = <<>>

Init ==
    /\ num_clusters \in 0..MaxClusters
    /\ units_per_cluster \in 0..MaxUnitsPer
    /\ sigma \in SigmaVals
    /\ threshold \in ThresholdVals
    /\ grid_res \in 1..MaxGridRes
    /\ rng \in 0..MaxSeed
    /\ seed = rng
    /\ run = 1
    /\ prev = NoPrev
    /\ Fresh

(* ------------------------------ actions ------------------------------- *)
\* line 14
GenCenters ==
    /\ pc = "centers"
    /\ cluster_centers' =
           [c \in 1..num_clusters |->
               <<Uniform(RngAfter(rng, 2 * c - 1)), Uniform(RngAfter(rng, 2 * c))>>]
    /\ rng' = RngAfter(rng, 2 * num_clusters)
    /\ clusters' = <<>>
    /\ ci' = 1
    /\ started' = Append(started, "generate")
    /\ pc' = "cluster"
    /\ UNCHANGED <<params, units, x, y, field, ui, peak, contour, exitCode,
                   accLog, run, seed, prev>>

\* lines 17-19, one iteration
GenCluster ==
    /\ pc = "cluster"
    /\ ~LoopDone(ci, Len(cluster_centers))
    /\ LET center == cluster_centers[ci]
           cluster == [u \in 1..units_per_cluster |->
                          <<center[1] + Normal(RngAfter(rng, 2 * u - 1)),
                            center[2] + Normal(RngAfter(rng, 2 * u))>>]
       IN  clusters' = Append(clusters, cluster)
    /\ rng' = RngAfter(rng, 2 * units_per_cluster)
    /\ ci' = ci + 1
    /\ UNCHANGED <<params, cluster_centers, units, x, y, field, ui, peak,
                   contour, pc, exitCode, started, accLog, run, seed, prev>>

\* line 21
Stack ==
    /\ pc = "cluster"
    /\ LoopDone(ci, Len(cluster_centers))
    /\ \/ /\ VstackFaults(clusters)
          /\ pc' = "fault"
          /\ exitCode' = 1
          /\ UNCHANGED units
       \/ /\ ~VstackFaults(clusters)
          /\ units' = Vstack(clusters)
          /\ pc' = "grid"
          /\ UNCHANGED exitCode
    /\ UNCHANGED <<params, rng, cluster_centers, clusters, ci, x, y, field, ui,
                   peak, contour, started, accLog, run, seed, prev>>

\* lines 24-30
BuildGrid ==
    /\ pc = "grid"
    /\ started' = Append(started, "grid")
    /\ \/ /\ EmptyReduction(units)
          /\ pc' = "fault"
          /\ exitCode' = 1
          /\ UNCHANGED <<x, y>>
       \/ /\ ~EmptyReduction(units)
          /\ LET xmin == AxisMin(units, 1) - margin
                 ymin == AxisMin(units, 2) - margin
                 xmax == AxisMax(units, 1) + margin
                 ymax == AxisMax(units, 2) + margin
             IN  /\ x' = Linspace(xmin, xmax, grid_res)
                 /\ y' = Linspace(ymin, ymax, grid_res)
          /\ pc' = "zeros"
          /\ UNCHANGED exitCode
    /\ UNCHANGED <<params, rng, cluster_centers, clusters, ci, units, field, ui,
                   peak, contour, accLog, run, seed, prev>>

\* line 33
InitField ==
    /\ pc = "zeros"
    /\ field' = [p \in GridOf(Len(x)) |-> 0]
    /\ ui' = 1
    /\ started' = Append(started, "field")
    /\ pc' = "accumulate"
    /\ UNCHANGED <<params, rng, cluster_centers, clusters, ci, units, x, y, peak,
                   contour, exitCode, accLog, run, seed, prev>>

\* lines 35-38, one iteration
Accumulate ==
    /\ pc = "accumulate"
    /\ ~LoopDone(ui, Len(units))
    /\ field' = [p \in DOMAIN field |->
                    field[p] + Kernel(x[p[2]] - units[ui][1],
                                      y[p[1]] - units[ui][2], sigma)]
    /\ accLog' = Append(accLog, ui)
    /\ ui' = ui + 1
    /\ UNCHANGED <<params, rng, cluster_centers, clusters, ci, units, x, y, peak,
                   contour, pc, exitCode, started, run, seed, prev>>

NormalizeRaising ==
    /\ pc = "accumulate"
    /\ LoopDone(ui, Len(units))
    /\ peak' = FieldMax(field)
    /\ IF peak' = 0
       THEN pc' = "fault" /\ exitCode' = 1 /\ UNCHANGED field
       ELSE pc' = "render" /\ field' = Normalized(field, peak') /\ UNCHANGED exitCode
    /\ UNCHANGED <<params, rng, cluster_centers, clusters, ci, units, x, y, ui,
                   contour, started, accLog, run, seed, prev>>

\* line 41
Normalize ==
    /\ pc = "accumulate"
    /\ LoopDone(ui, Len(units))
    /\ peak' = FieldMax(field)
    /\ field' = Normalized(field, peak')
    /\ pc' = "render"
    /\ UNCHANGED <<params, rng, cluster_centers, clusters, ci, units, x, y, ui,
                   contour, exitCode, started, accLog, run, seed, prev>>

\* lines 44-51
Render ==
    /\ pc = "render"
    /\ contour' = Crossings(field, threshold)
    /\ started' = Append(started, "render")
    /\ pc' = "done"
    /\ exitCode' = 0
    /\ UNCHANGED <<params, rng, cluster_centers, clusters, ci, units, x, y,
                   field, ui, peak, accLog, run, seed, prev>>

Terminated == pc \in {"done", "fault"}

\* line 11 enabled, and the script run a second time
Rerun ==
    /\ Terminated
    /\ run = 1
    /\ prev' = [pc |-> pc, units |-> units, field |-> field]
    /\ run' = 2
    /\ rng' = Reseed(seed)
    /\ cluster_centers' = <<>>
    /\ clusters' = <<>>
    /\ ci' = 1
    /\ units' = <<>>
    /\ x' = <<>>
    /\ y' = <<>>
    /\ field' = <<>>
    /\ ui' = 1
    /\ peak' = NaN
    /\ contour' = {}
    /\ pc' = "centers"
    /\ exitCode' = 0
    /\ started' = <<>>
    /\ accLog' = <<>>
    /\ UNCHANGED <<params, seed>>

Next ==
    \/ GenCenters
    \/ GenCluster
    \/ Stack
    \/ BuildGrid
    \/ InitField
    \/ Accumulate
    \/ Normalize
    \/ Render

Spec == Init /\ [][Next]_vars

\* the script runs synchronously to its end
FairSpec == Init /\ [][Next]_vars /\ WF_vars(Next)

NextSeeded == Next \/ Rerun

SeededSpec == Init /\ [][NextSeeded]_vars

(* ============================ properties ============================== *)
InStarted(s) == \E i \in 1..Len(started) : started[i] = s

IsPrefix(a, b) == Len(a) <= Len(b) /\ \A i \in 1..Len(a) : a[i] = b[i]

GenerationDone == pc \in {"grid", "zeros", "accumulate", "render", "done"}

GridBuilt == pc \in {"zeros", "accumulate", "render", "done"}

NormalizedState == pc \in {"render", "done"}

EmptyParams == num_clusters = 0 \/ units_per_cluster = 0

Increasing(a) == \A i \in 1..(Len(a) - 1) : a[i] < a[i + 1]

\* C1: for positive num_clusters and units_per_cluster the unit collection
\* handed to the grid stage holds exactly num_clusters * units_per_cluster
\* points, and the count stays the same in every later stage.
C1_UnitCount ==
    (num_clusters > 0 /\ units_per_cluster > 0 /\ GenerationDone)
        => /\ Len(units) = num_clusters * units_per_cluster
           /\ \A k \in 1..Len(units) : Len(units[k]) = 2

C1_Witness ==
    /\ pc = "done"
    /\ num_clusters = 2
    /\ units_per_cluster = 2
    /\ Len(units) = 4

AxisSpans(a, lo, hi) ==
    /\ Len(a) = grid_res
    /\ Increasing(a)
    /\ a[1] = lo
    /\ a[Len(a)] = hi

\* C2 as stated: for every non-empty unit collection each axis has grid_res
\* ordered samples, the first equal to min - margin and the last equal to
\* max + margin.
C2_Original ==
    GridBuilt =>
        /\ AxisSpans(x, AxisMin(units, 1) - margin, AxisMax(units, 1) + margin)
        /\ AxisSpans(y, AxisMin(units, 2) - margin, AxisMax(units, 2) + margin)

\* C2 (amended): for every non-empty unit collection and grid_res >= 2 each
\* axis has grid_res strictly increasing samples, the first equal to
\* min - margin and the last equal to max + margin; for grid_res = 1 each
\* axis holds the single sample min - margin.
C2_GridBounds ==
    GridBuilt =>
        /\ grid_res >= 2 =>
              /\ AxisSpans(x, AxisMin(units, 1) - margin, AxisMax(units, 1) + margin)
              /\ AxisSpans(y, AxisMin(units, 2) - margin, AxisMax(units, 2) + margin)
        /\ grid_res = 1 =>
              /\ x = <<AxisMin(units, 1) - margin>>
              /\ y = <<AxisMin(units, 2) - margin>>

\* the span is not a multiple of the divisor, so the computed step is rounded
C2_Witness ==
    /\ GridBuilt
    /\ grid_res = 3
    /\ (x[3] - x[1]) % 2 = 1
    /\ x[1] = AxisMin(units, 1) - margin
    /\ x[3] = AxisMax(units, 1) + margin

\* C3 as stated: with at least one unit and a positive finite sigma the
\* maximum of the normalized field is exactly 1.0.
C3_Original ==
    (NormalizedState /\ Len(units) >= 1 /\ sigma > 0) => FieldMax(field) = ONE

\* C3 (amended): with at least one unit and a positive finite sigma the
\* maximum of the normalized field is exactly 1.0 whenever the accumulated
\* field is not identically zero; when every kernel value underflowed to
\* zero the normalized maximum is not-a-number.
C3_NormalizedMax ==
    (NormalizedState /\ Len(units) >= 1 /\ sigma > 0) =>
        /\ peak >= 0
        /\ peak > 0 => FieldMax(field) = ONE
        /\ peak = 0 => FieldMax(field) = NaN

C3_Witness ==
    /\ NormalizedState
    /\ Len(units) >= 1
    /\ peak > 0
    /\ peak # ONE
    /\ FieldMax(field) = ONE

\* C4 as stated: after normalization every field value lies in [0, 1];
\* before normalization every accumulated value is non-negative.
C4_Original ==
    /\ NormalizedState =>
          \A p \in DOMAIN field : field[p] # NaN /\ 0 <= field[p] /\ field[p] <= ONE
    /\ pc = "accumulate" => \A p \in DOMAIN field : field[p] >= 0

\* C4 (amended): after normalization either every field value lies in [0, 1]
\* or (the accumulated field was identically zero) every value is
\* not-a-number; before normalization every accumulated value is non-negative.
C4_FieldRange ==
    /\ NormalizedState =>
          \/ /\ peak > 0
             /\ \A p \in DOMAIN field :
                    field[p] # NaN /\ 0 <= field[p] /\ field[p] <= ONE
          \/ /\ peak = 0
             /\ \A p \in DOMAIN field : field[p] = NaN
    /\ pc = "accumulate" => \A p \in DOMAIN field : field[p] # NaN /\ field[p] >= 0

C4_Witness ==
    /\ NormalizedState
    /\ \E p \in DOMAIN field : 0 < field[p] /\ field[p] < ONE
    /\ \E p \in DOMAIN field : field[p] = ONE

C9_Ordering ==
    /\ IsPrefix(started, StageOrder)
    /\ InStarted("grid") =>
          /\ Len(clusters) = num_clusters
          /\ Len(units) = num_clusters * units_per_cluster
    /\ x # <<>> => InStarted("grid")
    /\ IsPrefix(accLog, [i \in 1..Len(units) |-> i])
    /\ NormalizedState => accLog = [i \in 1..Len(units) |-> i]
    /\ peak # NaN => NormalizedState
    /\ InStarted("render") => (peak # NaN /\ pc = "done")
    /\ pc = "done" => ~ENABLED Next

\* C9 as stated: in every run the four stages execute exactly once each, in
\* the order generate, grid, field, render.
C9_Original ==
    /\ C9_Ordering
    /\ Terminated => started = StageOrder

\* C9 (amended): in every run each stage executes at most once and in the
\* order generate, grid, field (accumulate every unit once, then normalize
\* once), render; a run that completes executes all four exactly once and
\* nothing runs after render; a run that faults stops in the generate or the
\* grid stage and executes no later stage.
C9_StageOrder ==
    /\ C9_Ordering
    /\ pc = "done" => started = StageOrder
    /\ pc = "fault" =>
          /\ started \in {<<"generate">>, <<"generate", "grid">>}
          /\ ~ENABLED Next

C9_Witness ==
    /\ pc = "done"
    /\ started = StageOrder
    /\ accLog = <<1, 2, 3, 4>>

\* C10 as stated: the cluster-generation stage never faults; a fault for an
\* empty collection arises only in the grid-building stage.
C10_Original ==
    pc = "fault" => started = <<"generate", "grid">>

\* C10 (amended): for num_clusters > 0 the cluster-generation stage
\* completes without fault (with an empty collection when
\* units_per_cluster = 0, whose fault then arises in the grid-building
\* stage); for num_clusters = 0 the generation stage itself faults when it
\* stacks the empty list of clusters, and the grid stage is never entered.
C10_GenerationFaults ==
    /\ num_clusters > 0 =>
          /\ pc = "fault" =>
                /\ started = <<"generate", "grid">>
                /\ units_per_cluster = 0
                /\ units = <<>>
          /\ InStarted("grid") => Len(units) = num_clusters * units_per_cluster
    /\ num_clusters = 0 =>
          /\ pc \in {"centers", "cluster", "fault"}
          /\ ~InStarted("grid")
          /\ pc = "fault" => (started = <<"generate">> /\ exitCode # 0)

C10_Witness ==
    /\ pc = "fault"
    /\ num_clusters = 0
    /\ started = <<"generate">>
    /\ clusters = <<>>

====
